---- MODULE Spec2Model ----
(***************************************************************************)
(* Active-array registry of pyvista.core.dataset.DataSet.                  *)
(*                                                                         *)
(* A DataSet owns three named-array collections (point, cell, field), the  *)
(* cached active-scalars designation _active_scalars_info, the             *)
(* last-known-good name _last_active_scalars_name, and the native          *)
(* active-scalar selection of its point and of its cell collection.        *)
(* Every public operation of the registry is one action; the Python        *)
(* methods are operators from a dataset record to a dataset record, so     *)
(* that a method calling another method is an operator applying another.   *)
(***************************************************************************)
EXTENDS Integers, Sequences, FiniteSets, TLC

(* ------------------------------ bounds --------------------------------- *)
\* largest number of arrays a dataset holds at once (n_arrays)
MaxArrays == 2
\* array names passed by the caller; "Normals" is one of the excluded names
Names == {"a", "b", "Normals"}
\* Python's None, as a name
None == "None"
NameOrNone == Names \cup {None}
\* the strings a caller passes as preference / field
Preferences == {"point", "cell", "field"}
FieldChoices == {"point", "cell", "field", "row"}

\* largest number of vtkLight objects and of Light objects alive at once
MaxVtkLights == 2
MaxLights == 2

(* --------------------------- program constants ------------------------- *)
POINT_DATA_FIELD == 0
CELL_DATA_FIELD == 1
FIELD_DATA_FIELD == 2
ROW_DATA_FIELD == 6
\* the field get_array reports when the name is in no collection (None)
NO_FIELD == -1

excluded_names == {"__custom_rgba", "Normals", "vtkOriginalPointIds", "TCoords"}

(* ------------------------------ state ---------------------------------- *)
VARIABLES
    point_arrays,               \* GetPointData(): sequence of [name, data]
    cell_arrays,                \* GetCellData()
    field_arrays,               \* GetFieldData()
    _active_scalars_info,       \* <<field, name>>
    _last_active_scalars_name,  \* name or None
    point_scalars,              \* GetPointData() native active scalars (name or None)
    cell_scalars,               \* GetCellData() native active scalars (name or None)
    _active_vectors_info,       \* <<field, name>>, or Unset before the first read or set
    point_vectors,              \* GetPointData() native active vectors (name or None)
    cell_vectors,               \* GetCellData() native active vectors (name or None)
    last,                       \* the watched call made last: its arguments and its outcome
    watch,                      \* the calls recorded in last: pairs <<operation, error>>
    contents,                   \* the array contents (scalars) a caller passes
    given_names,                \* the names a caller gives the arrays it adds, removes
                                \* and renames
    vector_names,               \* the names a caller passes to set_active_vectors
    activated_names,            \* the names a caller passes to set_active_scalars or
                                \* adds with set_active=True
    light_inputs,               \* the positions, colours and light types a caller
                                \* passes to Light
    vtk_lights,                 \* the vtkLight objects: sequence of their fields
    lights                      \* the Light objects: sequence of [_light |-> vtkLight]

vars == <<point_arrays, cell_arrays, field_arrays, _active_scalars_info,
          _last_active_scalars_name, point_scalars, cell_scalars, _active_vectors_info,
          point_vectors, cell_vectors, last, watch, contents, given_names,
          vector_names, activated_names, light_inputs, vtk_lights, lights>>

\* the dataset has no attribute _active_vectors_info yet
Unset == <<>>

\* the dataset as one value (self)
Self ==
    [point |-> point_arrays, cell |-> cell_arrays, field |-> field_arrays,
     info |-> _active_scalars_info, last_name |-> _last_active_scalars_name,
     pscal |-> point_scalars, cscal |-> cell_scalars,
     vinfo |-> _active_vectors_info, pvec |-> point_vectors, cvec |-> cell_vectors]

Store(S) ==
    /\ point_arrays' = S.point
    /\ cell_arrays' = S.cell
    /\ field_arrays' = S.field
    /\ _active_scalars_info' = S.info
    /\ _last_active_scalars_name' = S.last_name
    /\ point_scalars' = S.pscal
    /\ cell_scalars' = S.cscal
    /\ _active_vectors_info' = S.vinfo
    /\ point_vectors' = S.pvec
    /\ cell_vectors' = S.cvec

(* ------------------- array collections (DataSetAttributes) ------------- *)
keys(coll) == [i \in 1..Len(coll) |-> coll[i].name]

KeySet(coll) == {coll[i].name : i \in 1..Len(coll)}

contains(coll, name) == name \in KeySet(coll)

IndexOf(coll, name) == CHOOSE i \in 1..Len(coll) : coll[i].name = name

get(coll, name) == coll[IndexOf(coll, name)].data

\* AddArray: an array of the same name is replaced in place, a new one is
\* stored last
append(coll, name, data) ==
    IF contains(coll, name)
    THEN [coll EXCEPT ![IndexOf(coll, name)] = [name |-> name, data |-> data]]
    ELSE Append(coll, [name |-> name, data |-> data])

\* RemoveArray: the other arrays keep their order
remove(coll, name) == SelectSeq(coll, LAMBDA a : a.name # name)

Collection(S, field) ==
    IF field = POINT_DATA_FIELD THEN S.point
    ELSE IF field = CELL_DATA_FIELD THEN S.cell
    ELSE IF field = FIELD_DATA_FIELD THEN S.field
    ELSE <<>>

\* GetPointData().SetActiveScalars(name): a name the collection does not
\* hold (None included) leaves no array selected
SetActiveScalars(coll, name) == IF contains(coll, name) THEN name ELSE None

\* GetPointData().SetActiveVectors(name), likewise
SetActiveVectors(coll, name) == IF contains(coll, name) THEN name ELSE None

\* the native selection after RemoveArray(name)
AfterRemove(selected, name) == IF selected = name THEN None ELSE selected

point_arrays_append(S, name, data) == [S EXCEPT !.point = append(S.point, name, data)]

cell_arrays_append(S, name, data) == [S EXCEPT !.cell = append(S.cell, name, data)]

field_arrays_append(S, name, data) == [S EXCEPT !.field = append(S.field, name, data)]

point_arrays_remove(S, name) ==
    [S EXCEPT !.point = remove(S.point, name), !.pscal = AfterRemove(S.pscal, name),
              !.pvec = AfterRemove(S.pvec, name)]

cell_arrays_remove(S, name) ==
    [S EXCEPT !.cell = remove(S.cell, name), !.cscal = AfterRemove(S.cscal, name),
              !.cvec = AfterRemove(S.cvec, name)]

field_arrays_remove(S, name) == [S EXCEPT !.field = remove(S.field, name)]

n_arrays(S) == Len(S.point) + Len(S.cell) + Len(S.field)

(* ------------------------------ helpers -------------------------------- *)
parse_field_choice(field) ==
    IF field = "point" THEN POINT_DATA_FIELD
    ELSE IF field = "cell" THEN CELL_DATA_FIELD
    ELSE IF field = "field" THEN FIELD_DATA_FIELD
    ELSE ROW_DATA_FIELD

\* the association get_array(..., info=True) resolves name to; preference
\* is the parsed preference
get_array(S, name, preference) ==
    IF preference = POINT_DATA_FIELD /\ contains(S.point, name) THEN POINT_DATA_FIELD
    ELSE IF preference = CELL_DATA_FIELD /\ contains(S.cell, name) THEN CELL_DATA_FIELD
    ELSE IF preference = FIELD_DATA_FIELD /\ contains(S.field, name) THEN FIELD_DATA_FIELD
    ELSE IF contains(S.point, name) THEN POINT_DATA_FIELD
    ELSE IF contains(S.cell, name) THEN CELL_DATA_FIELD
    ELSE IF contains(S.field, name) THEN FIELD_DATA_FIELD
    ELSE NO_FIELD

(* --------------------------- active scalars ---------------------------- *)
\* first_valid_array_name without the test against excluded_names
first_array_name(field_data) ==
    IF Len(field_data) = 0 THEN None ELSE field_data[1].name

first_valid_array_name(field_data) ==
    LET valid == {i \in 1..Len(field_data) : field_data[i].name \notin excluded_names}
    IN  IF valid = {} THEN None
        ELSE field_data[CHOOSE i \in valid : \A j \in valid : i <= j].name

\* active_scalars_info that returns the pair it read before the lazy search
active_scalars_info_returns_stale(S) ==
    LET field == S.info[1]
        name == IF S.info[2] \in excluded_names THEN S.last_name ELSE S.info[2]
        active_point_array == first_valid_array_name(S.point)
        active_cell_array == first_valid_array_name(S.cell)
    IN  IF name = None
        THEN IF n_arrays(S) = 0
             THEN [S |-> S, ret |-> <<field, name>>]
             ELSE IF active_point_array # None
             THEN [S |-> [S EXCEPT !.info = <<POINT_DATA_FIELD, active_point_array>>,
                                   !.pscal = SetActiveScalars(S.point, active_point_array)],
                   ret |-> <<field, name>>]
             ELSE IF active_cell_array # None
             THEN [S |-> [S EXCEPT !.info = <<CELL_DATA_FIELD, active_cell_array>>,
                                   !.cscal = SetActiveScalars(S.cell, active_cell_array)],
                   ret |-> <<field, name>>]
             ELSE [S |-> S, ret |-> S.info]
        ELSE [S |-> S, ret |-> S.info]

\* the property active_scalars_info: the dataset after the read and the
\* pair the read returns
active_scalars_info(S) ==
    LET field == S.info[1]
        name == IF S.info[2] \in excluded_names THEN S.last_name ELSE S.info[2]
        active_point_array == first_valid_array_name(S.point)
        active_cell_array == first_valid_array_name(S.cell)
    IN  IF name = None
        THEN IF n_arrays(S) = 0
             THEN [S |-> S, ret |-> <<field, name>>]
             ELSE IF active_point_array # None
             THEN [S |-> [S EXCEPT !.info = <<POINT_DATA_FIELD, active_point_array>>,
                                   !.pscal = SetActiveScalars(S.point, active_point_array)],
                   ret |-> <<POINT_DATA_FIELD, active_point_array>>]
             ELSE IF active_cell_array # None
             THEN [S |-> [S EXCEPT !.info = <<CELL_DATA_FIELD, active_cell_array>>,
                                   !.cscal = SetActiveScalars(S.cell, active_cell_array)],
                   ret |-> <<CELL_DATA_FIELD, active_cell_array>>]
             ELSE [S |-> S, ret |-> S.info]
        ELSE [S |-> S, ret |-> S.info]

\* set_active_scalars whose None branch clears the cell selection only
set_active_scalars_keeps_point(S, name, preference) ==
    IF name = None
    THEN [S |-> [S EXCEPT !.cscal = None], err |-> ""]
    ELSE LET field == get_array(S, name, preference)
             R == active_scalars_info(S)
             S1 == [R.S EXCEPT !.last_name = R.ret[2]]
         IN  IF field = POINT_DATA_FIELD
             THEN [S |-> [S1 EXCEPT !.pscal = SetActiveScalars(S1.point, name),
                                    !.info = <<field, name>>],
                   err |-> ""]
             ELSE IF field = CELL_DATA_FIELD
             THEN [S |-> [S1 EXCEPT !.cscal = SetActiveScalars(S1.cell, name),
                                    !.info = <<field, name>>],
                   err |-> ""]
             ELSE [S |-> S1, err |-> "RuntimeError"]

\* set_active_scalars that activates name in the preferred collection instead
\* of the one get_array resolved
set_active_scalars_by_preference(S, name, preference) ==
    IF name = None
    THEN [S |-> [S EXCEPT !.cscal = None, !.pscal = None], err |-> ""]
    ELSE LET field == get_array(S, name, preference)
             R == active_scalars_info(S)
             S1 == [R.S EXCEPT !.last_name = R.ret[2]]
         IN  IF field \notin {POINT_DATA_FIELD, CELL_DATA_FIELD}
             THEN [S |-> S1, err |-> "RuntimeError"]
             ELSE IF preference = POINT_DATA_FIELD
             THEN [S |-> [S1 EXCEPT !.pscal = SetActiveScalars(S1.point, name),
                                    !.info = <<preference, name>>],
                   err |-> ""]
             ELSE [S |-> [S1 EXCEPT !.cscal = SetActiveScalars(S1.cell, name),
                                    !.info = <<CELL_DATA_FIELD, name>>],
                   err |-> ""]

\* set_active_scalars(name, preference): the dataset after the call and the
\* error it raised ("" when it returned)
set_active_scalars(S, name, preference) ==
    IF name = None
    THEN [S |-> [S EXCEPT !.cscal = None, !.pscal = None], err |-> ""]
    ELSE LET field == get_array(S, name, preference)
             R == active_scalars_info(S)
             S1 == [R.S EXCEPT !.last_name = R.ret[2]]
         IN  IF field = POINT_DATA_FIELD
             THEN [S |-> [S1 EXCEPT !.pscal = SetActiveScalars(S1.point, name),
                                    !.info = <<field, name>>],
                   err |-> ""]
             ELSE IF field = CELL_DATA_FIELD
             THEN [S |-> [S1 EXCEPT !.cscal = SetActiveScalars(S1.cell, name),
                                    !.info = <<field, name>>],
                   err |-> ""]
             ELSE [S |-> S1, err |-> "RuntimeError"]

\* rename_array whose insertion under new_name leaves an array already stored
\* under that name as it is
rename_array_keeps_existing(S, old_name, new_name, preference) ==
    LET field == get_array(S, old_name, preference)
        insert(coll, data) ==
            IF contains(coll, new_name) THEN coll
            ELSE Append(coll, [name |-> new_name, data |-> data])
        moved == IF field = POINT_DATA_FIELD
                 THEN [point_arrays_remove(S, old_name) EXCEPT
                          !.point = insert(remove(S.point, old_name), get(S.point, old_name))]
                 ELSE IF field = CELL_DATA_FIELD
                 THEN [cell_arrays_remove(S, old_name) EXCEPT
                          !.cell = insert(remove(S.cell, old_name), get(S.cell, old_name))]
                 ELSE [S EXCEPT
                          !.field = insert(remove(S.field, old_name), get(S.field, old_name))]
    IN  IF field \notin {POINT_DATA_FIELD, CELL_DATA_FIELD, FIELD_DATA_FIELD}
        THEN [S |-> S, err |-> "RuntimeError"]
        ELSE LET R == active_scalars_info(moved)
             IN  IF R.ret[2] = old_name
                 THEN set_active_scalars(R.S, new_name, field)
                 ELSE [S |-> R.S, err |-> ""]

\* rename_array that returns silently when old_name is not found
rename_array_silent(S, old_name, new_name, preference) ==
    LET field == get_array(S, old_name, preference)
        moved == IF field = POINT_DATA_FIELD
                 THEN point_arrays_append(point_arrays_remove(S, old_name),
                                          new_name, get(S.point, old_name))
                 ELSE IF field = CELL_DATA_FIELD
                 THEN cell_arrays_append(cell_arrays_remove(S, old_name),
                                         new_name, get(S.cell, old_name))
                 ELSE field_arrays_append(field_arrays_remove(S, old_name),
                                          new_name, get(S.field, old_name))
    IN  IF field \notin {POINT_DATA_FIELD, CELL_DATA_FIELD, FIELD_DATA_FIELD}
        THEN [S |-> S, err |-> ""]
        ELSE LET R == active_scalars_info(moved)
             IN  IF R.ret[2] = old_name
                 THEN set_active_scalars(R.S, new_name, field)
                 ELSE [S |-> R.S, err |-> ""]

\* rename_array(old_name, new_name, preference)
rename_array(S, old_name, new_name, preference) ==
    LET field == get_array(S, old_name, preference)
        moved == IF field = POINT_DATA_FIELD
                 THEN point_arrays_append(point_arrays_remove(S, old_name),
                                          new_name, get(S.point, old_name))
                 ELSE IF field = CELL_DATA_FIELD
                 THEN cell_arrays_append(cell_arrays_remove(S, old_name),
                                         new_name, get(S.cell, old_name))
                 ELSE field_arrays_append(field_arrays_remove(S, old_name),
                                          new_name, get(S.field, old_name))
    IN  IF field \notin {POINT_DATA_FIELD, CELL_DATA_FIELD, FIELD_DATA_FIELD}
        THEN [S |-> S, err |-> "RuntimeError"]
        ELSE LET R == active_scalars_info(moved)
             IN  IF R.ret[2] = old_name
                 THEN set_active_scalars(R.S, new_name, field)
                 ELSE [S |-> R.S, err |-> ""]

\* _add_point_array(scalars, name, set_active)
_add_point_array(S, scalars, name, set_active) ==
    LET S1 == point_arrays_append(S, name, scalars)
        R == active_scalars_info(S1)
        S2 == IF set_active THEN S1 ELSE R.S
    IN  IF set_active \/ R.ret[2] = None
        THEN [S2 EXCEPT !.pscal = SetActiveScalars(S2.point, name),
                        !.info = <<POINT_DATA_FIELD, name>>]
        ELSE S2

\* _add_cell_array(scalars, name, set_active)
_add_cell_array(S, scalars, name, set_active) == cell_arrays_append(S, name, scalars)

\* _add_field_array(scalars, name)
_add_field_array(S, scalars, name) == field_arrays_append(S, name, scalars)

\* _remove_array that removes the name from all three collections
_remove_array_everywhere(S, field, name) ==
    LET f == parse_field_choice(field)
    IN  IF f \in {POINT_DATA_FIELD, CELL_DATA_FIELD, FIELD_DATA_FIELD}
        THEN [S |-> field_arrays_remove(cell_arrays_remove(point_arrays_remove(S, name),
                                                           name), name),
              err |-> ""]
        ELSE [S |-> S, err |-> "NotImplementedError"]

\* _remove_array(field, name)
_remove_array(S, field, name) ==
    LET f == parse_field_choice(field)
    IN  IF f = POINT_DATA_FIELD THEN [S |-> point_arrays_remove(S, name), err |-> ""]
        ELSE IF f = CELL_DATA_FIELD THEN [S |-> cell_arrays_remove(S, name), err |-> ""]
        ELSE IF f = FIELD_DATA_FIELD THEN [S |-> field_arrays_remove(S, name), err |-> ""]
        ELSE [S |-> S, err |-> "NotImplementedError"]

clear_point_arrays(S) == [S EXCEPT !.point = <<>>, !.pscal = None, !.pvec = None]

clear_cell_arrays(S) == [S EXCEPT !.cell = <<>>, !.cscal = None, !.cvec = None]

clear_field_arrays(S) == [S EXCEPT !.field = <<>>]

clear_arrays(S) == clear_field_arrays(clear_cell_arrays(clear_point_arrays(S)))

\* list.remove(x): drops the first element equal to x
list_remove(names, x) ==
    LET i == CHOOSE k \in 1..Len(names) :
                 names[k] = x /\ \A j \in 1..(k - 1) : names[j] # x
    IN  SubSeq(names, 1, i - 1) \o SubSeq(names, i + 1, Len(names))

\* array_names that drops every occurrence of the active scalars name before
\* putting it first
array_names_dedup(S) ==
    LET names == keys(S.field) \o keys(S.point) \o keys(S.cell)
        R1 == active_scalars_info(S)
        R2 == active_scalars_info(R1.S)
    IN  IF \E k \in 1..Len(names) : names[k] = R1.ret[2]
        THEN [S |-> R2.S,
              ret |-> <<R2.ret[2]>> \o SelectSeq(names, LAMBDA n : n # R1.ret[2])]
        ELSE [S |-> R1.S, ret |-> names]

\* the property array_names: the dataset after the read and the list returned
array_names(S) ==
    LET names == keys(S.field) \o keys(S.point) \o keys(S.cell)
        R1 == active_scalars_info(S)
        R2 == active_scalars_info(R1.S)
    IN  IF \E k \in 1..Len(names) : names[k] = R1.ret[2]
        THEN [S |-> R2.S, ret |-> <<R2.ret[2]>> \o list_remove(names, R1.ret[2])]
        ELSE [S |-> R1.S, ret |-> names]

(* --------------------------- active vectors ---------------------------- *)
\* set_active_vectors without the test that the resolved field is point or cell
set_active_vectors_any_field(S, name, preference) ==
    IF name = None
    THEN [S |-> [S EXCEPT !.cvec = None, !.pvec = None], err |-> ""]
    ELSE LET field == get_array(S, name, preference)
         IN  IF field = POINT_DATA_FIELD
             THEN [S |-> [S EXCEPT !.pvec = SetActiveVectors(S.point, name),
                                   !.vinfo = <<field, name>>],
                   err |-> ""]
             ELSE IF field = CELL_DATA_FIELD
             THEN [S |-> [S EXCEPT !.cvec = SetActiveVectors(S.cell, name),
                                   !.vinfo = <<field, name>>],
                   err |-> ""]
             ELSE IF field = FIELD_DATA_FIELD
             THEN [S |-> [S EXCEPT !.vinfo = <<field, name>>], err |-> ""]
             ELSE [S |-> S, err |-> "RuntimeError"]

\* set_active_vectors(name, preference): the dataset after the call and the
\* error it raised ("" when it returned)
set_active_vectors(S, name, preference) ==
    IF name = None
    THEN [S |-> [S EXCEPT !.cvec = None, !.pvec = None], err |-> ""]
    ELSE LET field == get_array(S, name, preference)
         IN  IF field = POINT_DATA_FIELD
             THEN [S |-> [S EXCEPT !.pvec = SetActiveVectors(S.point, name),
                                   !.vinfo = <<field, name>>],
                   err |-> ""]
             ELSE IF field = CELL_DATA_FIELD
             THEN [S |-> [S EXCEPT !.cvec = SetActiveVectors(S.cell, name),
                                   !.vinfo = <<field, name>>],
                   err |-> ""]
             ELSE [S |-> S, err |-> "RuntimeError"]

\* the property active_vectors_info: the dataset after the read, the pair the
\* read returns and the error it raised ("" when it returned)
active_vectors_info(S) ==
    IF S.vinfo = Unset
    THEN LET A == array_names(S)
         IN  IF \E k \in 1..Len(A.ret) : A.ret[k] = "Normals"
             THEN LET R == set_active_vectors(A.S, "Normals", POINT_DATA_FIELD)
                  IN  [S |-> R.S, ret |-> R.S.vinfo, err |-> R.err]
             ELSE [S |-> [A.S EXCEPT !.vinfo = <<POINT_DATA_FIELD, None>>],
                   ret |-> <<POINT_DATA_FIELD, None>>, err |-> ""]
    ELSE [S |-> S, ret |-> S.vinfo, err |-> ""]

\* the property active_vectors: the dataset after the read, the array returned
\* (<<>> for None, <<contents>> for an array) and the error raised
active_vectors(S) ==
    LET R == active_vectors_info(S)
    IN  IF R.err # "" THEN [S |-> R.S, ret |-> <<>>, err |-> R.err]
        ELSE IF R.ret[2] = None THEN [S |-> R.S, ret |-> <<>>, err |-> ""]
        ELSE IF ~contains(Collection(R.S, R.ret[1]), R.ret[2])
        THEN [S |-> R.S, ret |-> <<>>, err |-> "KeyError"]
        ELSE [S |-> R.S, ret |-> <<get(Collection(R.S, R.ret[1]), R.ret[2])>>, err |-> ""]

(* ------------------------------ actions -------------------------------- *)
NoCall == [op |-> "", name |-> None, arg |-> None, pref |-> "", flag |-> FALSE,
           err |-> "", info |-> <<POINT_DATA_FIELD, None>>, names |-> <<>>,
           value |-> <<>>, light |-> 0, given |-> <<"NoneType", 0, <<>>>>,
           result |-> <<"NoneType", 0, <<>>>>, position |-> <<>>, color |-> <<>>]

\* the record of a call: kept when its operation and outcome are watched
Log(call) ==
    /\ last' = IF <<call.op, call.err>> \in watch THEN call ELSE NoCall
    /\ UNCHANGED <<watch, contents, given_names, vector_names, activated_names,
                   light_inputs, vtk_lights, lights>>

\* a specification of the dataset alone passes nothing to Light
NoLightInputs == [position |-> {<<>>}, color |-> {<<>>}, light_type |-> {}]

\* the collections and the active scalars of a dataset just constructed
InitArrays ==
    /\ point_arrays = <<>>
    /\ cell_arrays = <<>>
    /\ field_arrays = <<>>
    /\ _active_scalars_info = <<0, None>>
    /\ _last_active_scalars_name = None
    /\ point_scalars = None
    /\ cell_scalars = None
    /\ point_vectors = None
    /\ cell_vectors = None
    /\ last = NoCall
    /\ vtk_lights = <<>>
    /\ lights = <<>>

\* the dataset just constructed
Init0 == InitArrays /\ _active_vectors_info = Unset

\* the dataset just constructed, after a first read of active_vectors_info
\* (with no array held the read stores (point, None) and changes nothing else)
InitVectorsRead == InitArrays /\ _active_vectors_info = <<POINT_DATA_FIELD, None>>

\* room for one more array, or the name replaces an array already held
CanAdd(coll, name) == n_arrays(Self) < MaxArrays \/ contains(coll, name)

call_add_point_array ==
    \E name \in given_names, scalars \in contents, set_active \in BOOLEAN :
        /\ set_active => name \in activated_names
        /\ CanAdd(point_arrays, name)
        /\ Store(_add_point_array(Self, scalars, name, set_active))
        /\ Log([NoCall EXCEPT !.op = "_add_point_array", !.name = name,
                                  !.flag = set_active])

call_add_cell_array ==
    \E name \in given_names, scalars \in contents, set_active \in BOOLEAN :
        /\ set_active => name \in activated_names
        /\ CanAdd(cell_arrays, name)
        /\ Store(_add_cell_array(Self, scalars, name, set_active))
        /\ Log([NoCall EXCEPT !.op = "_add_cell_array", !.name = name,
                                  !.flag = set_active])

call_add_field_array ==
    \E name \in given_names, scalars \in contents :
        /\ CanAdd(field_arrays, name)
        /\ Store(_add_field_array(Self, scalars, name))
        /\ Log([NoCall EXCEPT !.op = "_add_field_array", !.name = name])

call_remove_array ==
    \E field \in FieldChoices, name \in given_names :
        LET R == _remove_array(Self, field, name)
        IN  /\ Store(R.S)
            /\ Log([NoCall EXCEPT !.op = "_remove_array", !.name = name,
                                      !.pref = field, !.err = R.err])

call_clear_point_arrays ==
    /\ Store(clear_point_arrays(Self))
    /\ Log([NoCall EXCEPT !.op = "clear_point_arrays"])

call_clear_cell_arrays ==
    /\ Store(clear_cell_arrays(Self))
    /\ Log([NoCall EXCEPT !.op = "clear_cell_arrays"])

call_clear_field_arrays ==
    /\ Store(clear_field_arrays(Self))
    /\ Log([NoCall EXCEPT !.op = "clear_field_arrays"])

call_clear_arrays ==
    /\ Store(clear_arrays(Self))
    /\ Log([NoCall EXCEPT !.op = "clear_arrays"])

call_rename_array ==
    \E old_name \in given_names, new_name \in given_names, preference \in Preferences :
        LET R == rename_array(Self, old_name, new_name, parse_field_choice(preference))
        IN  /\ Store(R.S)
            /\ Log([NoCall EXCEPT !.op = "rename_array", !.name = old_name,
                                      !.arg = new_name, !.pref = preference,
                                      !.err = R.err])

call_set_active_scalars ==
    \E name \in activated_names, preference \in Preferences :
        LET R == set_active_scalars(Self, name, parse_field_choice(preference))
        IN  /\ Store(R.S)
            /\ Log([NoCall EXCEPT !.op = "set_active_scalars", !.name = name,
                                      !.pref = preference, !.err = R.err])

call_active_scalars_info ==
    LET R == active_scalars_info(Self)
    IN  /\ Store(R.S)
        /\ Log([NoCall EXCEPT !.op = "active_scalars_info", !.info = R.ret])

call_array_names ==
    LET R == array_names(Self)
    IN  /\ Store(R.S)
        /\ Log([NoCall EXCEPT !.op = "array_names", !.names = R.ret])

call_set_active_vectors ==
    \E name \in vector_names, preference \in Preferences :
        LET R == set_active_vectors(Self, name, parse_field_choice(preference))
        IN  /\ Store(R.S)
            /\ Log([NoCall EXCEPT !.op = "set_active_vectors", !.name = name,
                                      !.pref = preference, !.err = R.err])

call_active_vectors_info ==
    LET R == active_vectors_info(Self)
    IN  /\ Store(R.S)
        /\ Log([NoCall EXCEPT !.op = "active_vectors_info", !.info = R.ret,
                                  !.err = R.err])

call_active_vectors ==
    LET R == active_vectors(Self)
    IN  /\ Store(R.S)
        /\ Log([NoCall EXCEPT !.op = "active_vectors", !.value = R.ret,
                                  !.err = R.err])

Next ==
    \/ call_add_point_array
    \/ call_add_cell_array
    \/ call_add_field_array
    \/ call_remove_array
    \/ call_clear_point_arrays
    \/ call_clear_cell_arrays
    \/ call_clear_field_arrays
    \/ call_clear_arrays
    \/ call_rename_array
    \/ call_set_active_scalars
    \/ call_active_scalars_info
    \/ call_array_names
    \/ call_set_active_vectors
    \/ call_active_vectors_info
    \/ call_active_vectors

\* no call is recorded
Init ==
    /\ Init0
    /\ watch = {}
    /\ contents = {1}
    /\ given_names = Names
    /\ vector_names = {None}
    /\ activated_names = NameOrNone
    /\ light_inputs = NoLightInputs
Spec == Init /\ [][Next]_vars

\* the calls of rename_array that return are recorded; arrays of two
\* different contents are passed, so that a rename can mix them up; the
\* active vectors have been read once and are never set
InitRename ==
    /\ InitVectorsRead
    /\ watch = {<<"rename_array", "">>}
    /\ contents = {1, 2}
    /\ given_names = {"a", "Normals"}
    /\ vector_names = {None}
    /\ activated_names = NameOrNone
    /\ light_inputs = NoLightInputs
SpecRename == InitRename /\ [][Next]_vars

\* the calls of set_active_scalars are recorded, those that raise included
InitSetActive ==
    /\ Init0
    /\ contents = {1}
    /\ watch = {<<"set_active_scalars", "">>, <<"set_active_scalars", "RuntimeError">>}
    /\ given_names = Names
    /\ vector_names = {None}
    /\ activated_names = NameOrNone
    /\ light_inputs = NoLightInputs
SpecSetActive == InitSetActive /\ [][Next]_vars

\* the reads of active_scalars_info are recorded
InitRead ==
    /\ Init0
    /\ contents = {1}
    /\ watch = {<<"active_scalars_info", "">>}
    /\ given_names = Names
    /\ vector_names = {None}
    /\ activated_names = NameOrNone
    /\ light_inputs = NoLightInputs
SpecRead == InitRead /\ [][Next]_vars

\* the reads of array_names are recorded
InitNames ==
    /\ Init0
    /\ contents = {1}
    /\ watch = {<<"array_names", "">>}
    /\ given_names = Names
    /\ vector_names = {None}
    /\ activated_names = NameOrNone
    /\ light_inputs = NoLightInputs
SpecNames == InitNames /\ [][Next]_vars

\* the calls of set_active_scalars and of set_active_vectors that raise are
\* recorded; None, "a" and "Normals" are passed to set_active_vectors
InitRaise ==
    /\ Init0
    /\ contents = {1}
    /\ watch = {<<"set_active_vectors", "RuntimeError">>,
                <<"set_active_scalars", "RuntimeError">>}
    /\ given_names = {"a", "Normals"}
    /\ vector_names = {None, "a", "Normals"}
    /\ activated_names = NameOrNone
    /\ light_inputs = NoLightInputs
SpecRaise == InitRaise /\ [][Next]_vars

\* the calls of _remove_array are recorded, those that raise included; "a" is
\* passed to set_active_vectors
InitRemove ==
    /\ Init0
    /\ contents = {1}
    /\ watch = {<<"_remove_array", "">>, <<"_remove_array", "NotImplementedError">>}
    /\ given_names = {"a", "Normals"}
    /\ vector_names = {"a"}
    /\ activated_names = NameOrNone
    /\ light_inputs = NoLightInputs
SpecRemove == InitRemove /\ [][Next]_vars

\* the calls of rename_array that raise are recorded
InitRenameRaise ==
    /\ Init0
    /\ contents = {1}
    /\ watch = {<<"rename_array", "RuntimeError">>}
    /\ given_names = {"a", "Normals"}
    /\ vector_names = {None}
    /\ activated_names = NameOrNone
    /\ light_inputs = NoLightInputs
SpecRenameRaise == InitRenameRaise /\ [][Next]_vars

\* the calls of set_active_vectors that return are recorded; None and "a" are
\* passed to it
InitSetVectors ==
    /\ Init0
    /\ contents = {1}
    /\ watch = {<<"set_active_vectors", "">>}
    /\ given_names = {"a", "Normals"}
    /\ vector_names = {None, "a"}
    /\ activated_names = NameOrNone
    /\ light_inputs = NoLightInputs
SpecSetVectors == InitSetVectors /\ [][Next]_vars

\* the calls of _add_point_array and of _add_cell_array are recorded
InitAdd ==
    /\ Init0
    /\ contents = {1}
    /\ watch = {<<"_add_point_array", "">>, <<"_add_cell_array", "">>}
    /\ given_names = Names
    /\ vector_names = {None}
    /\ activated_names = NameOrNone
    /\ light_inputs = NoLightInputs
SpecAdd == InitAdd /\ [][Next]_vars

\* no call is recorded; the caller never passes an excluded name to
\* set_active_scalars and never adds one with set_active=True
InitAuto ==
    /\ Init0
    /\ contents = {1}
    /\ watch = {}
    /\ given_names = Names
    /\ vector_names = {None}
    /\ activated_names = NameOrNone \ excluded_names
    /\ light_inputs = NoLightInputs
SpecAuto == InitAuto /\ [][Next]_vars

(* ============================ pyvista.Light ============================ *)
\* LightType
HEADLIGHT == 1
CAMERA_LIGHT == 2
SCENE_LIGHT == 3

LightType == {HEADLIGHT, CAMERA_LIGHT, SCENE_LIGHT}

\* Python values, as <<type, number, characters>>
NoneValue == <<"NoneType", 0, <<>>>>
IntValue(n) == <<"int", n, <<>>>>
EnumValue(n) == <<"LightType", n, <<>>>>
StrValue(chars) == <<"str", 0, chars>>
ListValue == <<"list", 0, <<>>>>
VtkLightRef(i) == <<"vtkLight", i, <<>>>>
BoolValue(b) == <<"bool", IF b THEN 1 ELSE 0, <<>>>>

\* isinstance(value, int): LightType is an IntEnum, bool a subclass of int
isinstance_int(value) == value[1] \in {"int", "LightType", "bool"}

isinstance_str(value) == value[1] = "str"

isinstance_vtkLight(value) == value[1] = "vtkLight"

\* str.lower() and str.replace(' ', '') on strings as sequences of characters
UpperCase == <<"A", "B", "C", "D", "E", "F", "G", "H", "I", "J", "K", "L", "M",
               "N", "O", "P", "Q", "R", "S", "T", "U", "V", "W", "X", "Y", "Z">>
LowerCase == <<"a", "b", "c", "d", "e", "f", "g", "h", "i", "j", "k", "l", "m",
               "n", "o", "p", "q", "r", "s", "t", "u", "v", "w", "x", "y", "z">>

lower(chars) ==
    [i \in 1..Len(chars) |->
        IF \E k \in 1..26 : UpperCase[k] = chars[i]
        THEN LowerCase[CHOOSE k \in 1..26 : UpperCase[k] = chars[i]]
        ELSE chars[i]]

replace_spaces(chars) == SelectSeq(chars, LAMBDA c : c # " ")

\* the keys of mapping in Light.__init__
headlight == <<"h", "e", "a", "d", "l", "i", "g", "h", "t">>
cameralight == <<"c", "a", "m", "e", "r", "a", "l", "i", "g", "h", "t">>
scenelight == <<"s", "c", "e", "n", "e", "l", "i", "g", "h", "t">>

\* mapping.get(type_normalized): a LightType, or None
mapping_get(type_normalized) ==
    IF type_normalized = headlight THEN EnumValue(HEADLIGHT)
    ELSE IF type_normalized = cameralight THEN EnumValue(CAMERA_LIGHT)
    ELSE IF type_normalized = scenelight THEN EnumValue(SCENE_LIGHT)
    ELSE NoneValue

\* the values a caller passes as light_type
IntCodes == 0..4
SceneLightDefault == <<"s", "c", "e", "n", "e", " ", "l", "i", "g", "h", "t">>
TypeStrings ==
    {SceneLightDefault,
     <<"H", "e", "a", "d", "l", "i", "g", "h", "t">>,
     <<"C", "A", "M", "E", "R", "A", " ", "L", "I", "G", "H", "T">>,
     <<"i", "n", "v", "a", "l", "i", "d">>,
     <<>>}
LightTypeInputs ==
    {IntValue(n) : n \in IntCodes} \cup {EnumValue(n) : n \in LightType}
        \cup {StrValue(chars) : chars \in TypeStrings} \cup {ListValue, NoneValue}

\* positions and colours a caller passes; <<>> stands for None
PositionInputs == {<<>>, <<1, 1, 1>>}
ColorInputs == {<<>>, <<1, 0, 0>>}

\* vtk.vtkLight(): a scene light, switched on, white
vtkLight ==
    [LightType |-> SCENE_LIGHT, Switch |-> TRUE, Position |-> <<0, 0, 1>>,
     AmbientColor |-> <<0, 0, 0>>, DiffuseColor |-> <<1, 1, 1>>,
     SpecularColor |-> <<1, 1, 1>>]

\* the light_type setter accepting LightType members only
light_type_setter_enum_only(light, ltype) ==
    IF ltype[1] # "LightType"
    THEN [light |-> light, err |-> "TypeError"]
    ELSE [light |-> [light EXCEPT !.LightType = ltype[2]], err |-> ""]

\* the light_type setter on a light wrapping the vtkLight light
light_type_setter(light, ltype) ==
    IF ~isinstance_int(ltype)
    THEN [light |-> light, err |-> "TypeError"]
    ELSE [light |-> [light EXCEPT !.LightType = ltype[2]], err |-> ""]

\* the light_type getter: LightType(self._light.GetLightType())
light_type(light) ==
    IF light.LightType \in LightType
    THEN [ret |-> EnumValue(light.LightType), err |-> ""]
    ELSE [ret |-> NoneValue, err |-> "ValueError"]

is_headlight(light) == light.LightType = HEADLIGHT

is_camera_light(light) == light.LightType = CAMERA_LIGHT

is_scene_light(light) == light.LightType = SCENE_LIGHT

set_headlight(light) == [light EXCEPT !.LightType = HEADLIGHT]

set_camera_light(light) == [light EXCEPT !.LightType = CAMERA_LIGHT]

set_scene_light(light) == [light EXCEPT !.LightType = SCENE_LIGHT]

\* bool(self._light.GetSwitch())
is_on(light) == light.Switch

\* light.is_on = state
is_on_setter(light, state) == [light EXCEPT !.Switch = state]

switch_on(light) == [light EXCEPT !.Switch = TRUE]

switch_off(light) == [light EXCEPT !.Switch = FALSE]

\* switch(is_on) that switches the light on when no state is given
switch_on_by_default(light, state) ==
    [light EXCEPT !.Switch = IF state = NoneValue THEN TRUE ELSE state[2] = 1]

\* switch(is_on): is_on is None, or a bool
switch(light, state) ==
    [light EXCEPT !.Switch = IF state = NoneValue THEN ~is_on(light) ELSE state[2] = 1]

\* vtkLight.DeepCopy(source) on the vtkLight target: position, colours and
\* switch are copied; whether the light type is copied is left to the library
DeepCopy(target, source, type_copied) ==
    [source EXCEPT !.LightType = IF type_copied THEN source.LightType
                                 ELSE target.LightType]

\* Light.__init__ that takes a string it does not know for 'scene light'
Light_create_forgiving(position, color, ltype) ==
    LET placed == IF position # <<>> THEN [vtkLight EXCEPT !.Position = position]
                  ELSE vtkLight
        colored == IF color # <<>>
                   THEN [placed EXCEPT !.AmbientColor = color, !.DiffuseColor = color,
                                       !.SpecularColor = color]
                   ELSE placed
        found == mapping_get(lower(replace_spaces(ltype[3])))
        resolved == IF ~isinstance_str(ltype) THEN ltype
                    ELSE IF found = NoneValue THEN EnumValue(SCENE_LIGHT)
                    ELSE found
    IN  IF ~isinstance_str(ltype) /\ ~isinstance_int(ltype)
        THEN [light |-> colored, err |-> "TypeError"]
        ELSE light_type_setter(colored, resolved)

\* Light.__init__ that looks the string up as it is written
Light_create_case_sensitive(position, color, ltype) ==
    LET placed == IF position # <<>> THEN [vtkLight EXCEPT !.Position = position]
                  ELSE vtkLight
        colored == IF color # <<>>
                   THEN [placed EXCEPT !.AmbientColor = color, !.DiffuseColor = color,
                                       !.SpecularColor = color]
                   ELSE placed
        resolved == IF isinstance_str(ltype)
                    THEN mapping_get(replace_spaces(ltype[3]))
                    ELSE ltype
    IN  IF isinstance_str(ltype) /\ resolved = NoneValue
        THEN [light |-> colored, err |-> "ValueError"]
        ELSE IF ~isinstance_str(ltype) /\ ~isinstance_int(ltype)
        THEN [light |-> colored, err |-> "TypeError"]
        ELSE light_type_setter(colored, resolved)

\* Light.__init__ without an existing light: the vtkLight the new Light wraps
\* and the error raised ("" when the Light is constructed)
Light_create(position, color, ltype) ==
    LET placed == IF position # <<>> THEN [vtkLight EXCEPT !.Position = position]
                  ELSE vtkLight
        colored == IF color # <<>>
                   THEN [placed EXCEPT !.AmbientColor = color, !.DiffuseColor = color,
                                       !.SpecularColor = color]
                   ELSE placed
        resolved == IF isinstance_str(ltype)
                    THEN mapping_get(lower(replace_spaces(ltype[3])))
                    ELSE ltype
    IN  IF isinstance_str(ltype) /\ resolved = NoneValue
        THEN [light |-> colored, err |-> "ValueError"]
        ELSE IF ~isinstance_str(ltype) /\ ~isinstance_int(ltype)
        THEN [light |-> colored, err |-> "TypeError"]
        ELSE light_type_setter(colored, resolved)

\* the record of a call on a light
LogLight(call) ==
    /\ last' = IF <<call.op, call.err>> \in watch THEN call ELSE NoCall
    /\ UNCHANGED <<point_arrays, cell_arrays, field_arrays, _active_scalars_info,
                   _last_active_scalars_name, point_scalars, cell_scalars,
                   _active_vectors_info, point_vectors, cell_vectors, watch, contents,
                   given_names, vector_names, activated_names, light_inputs>>

\* the values a caller passes as existing_light
ExistingLightInputs ==
    {NoneValue, StrValue(<<"i", "n", "v", "a", "l", "i", "d">>)}
        \cup {VtkLightRef(i) : i \in 1..Len(vtk_lights)}

\* the caller makes a vtkLight of its own
call_vtkLight ==
    /\ Len(vtk_lights) < MaxVtkLights
    /\ vtk_lights' = Append(vtk_lights, vtkLight)
    /\ UNCHANGED lights
    /\ LogLight([NoCall EXCEPT !.op = "vtkLight"])

\* the caller sets the type of a vtkLight of its own
call_SetLightType ==
    \E i \in 1..Len(vtk_lights), n \in IntCodes :
        /\ vtk_lights' = [vtk_lights EXCEPT ![i].LightType = n]
        /\ UNCHANGED lights
        /\ LogLight([NoCall EXCEPT !.op = "SetLightType", !.given = IntValue(n)])

\* Light(existing_light, position=...) that moves the vtkLight it wraps
call_Light_wrap_positions ==
    \E existing_light \in ExistingLightInputs, position \in light_inputs.position,
       color \in light_inputs.color, ltype \in light_inputs.light_type :
        LET R == Light_create(position, color, ltype)
            call == [NoCall EXCEPT !.op = "Light", !.given = ltype,
                                   !.arg = existing_light[1],
                                   !.position = position, !.color = color]
        IN  IF isinstance_vtkLight(existing_light)
            THEN /\ Len(lights) < MaxLights
                 /\ lights' = Append(lights, [_light |-> existing_light[2]])
                 /\ vtk_lights' = [vtk_lights EXCEPT ![existing_light[2]].Position =
                                       IF position # <<>> THEN position ELSE @]
                 /\ LogLight([call EXCEPT !.light = Len(lights) + 1])
            ELSE IF existing_light # NoneValue
            THEN /\ UNCHANGED <<vtk_lights, lights>>
                 /\ LogLight([call EXCEPT !.err = "TypeError"])
            ELSE IF R.err # ""
            THEN /\ UNCHANGED <<vtk_lights, lights>>
                 /\ LogLight([call EXCEPT !.err = R.err])
            ELSE /\ Len(lights) < MaxLights
                 /\ Len(vtk_lights) < MaxVtkLights
                 /\ vtk_lights' = Append(vtk_lights, R.light)
                 /\ lights' = Append(lights, [_light |-> Len(vtk_lights) + 1])
                 /\ LogLight([call EXCEPT !.light = Len(lights) + 1])

\* Light(existing_light, position=..., color=..., light_type=...)
call_Light ==
    \E existing_light \in ExistingLightInputs, position \in light_inputs.position,
       color \in light_inputs.color, ltype \in light_inputs.light_type :
        LET R == Light_create(position, color, ltype)
            call == [NoCall EXCEPT !.op = "Light", !.given = ltype,
                                   !.arg = existing_light[1],
                                   !.position = position, !.color = color]
        IN  IF isinstance_vtkLight(existing_light)
            THEN /\ Len(lights) < MaxLights
                 /\ lights' = Append(lights, [_light |-> existing_light[2]])
                 /\ UNCHANGED vtk_lights
                 /\ LogLight([call EXCEPT !.light = Len(lights) + 1])
            ELSE IF existing_light # NoneValue
            THEN /\ UNCHANGED <<vtk_lights, lights>>
                 /\ LogLight([call EXCEPT !.err = "TypeError"])
            ELSE IF R.err # ""
            THEN /\ UNCHANGED <<vtk_lights, lights>>
                 /\ LogLight([call EXCEPT !.err = R.err])
            ELSE /\ Len(lights) < MaxLights
                 /\ Len(vtk_lights) < MaxVtkLights
                 /\ vtk_lights' = Append(vtk_lights, R.light)
                 /\ lights' = Append(lights, [_light |-> Len(vtk_lights) + 1])
                 /\ LogLight([call EXCEPT !.light = Len(lights) + 1])

\* Light.from_vtk(vtk_light): the class Light defines no from_vtk
call_from_vtk ==
    \E vtk_light \in ExistingLightInputs \ {NoneValue} :
        /\ UNCHANGED <<vtk_lights, lights>>
        /\ LogLight([NoCall EXCEPT !.op = "from_vtk", !.given = vtk_light,
                                      !.err = "AttributeError"])

\* light.light_type = ltype
call_light_type_setter ==
    \E l \in 1..Len(lights), ltype \in light_inputs.light_type :
        LET R == light_type_setter(vtk_lights[lights[l]._light], ltype)
        IN  /\ vtk_lights' = [vtk_lights EXCEPT ![lights[l]._light] = R.light]
            /\ UNCHANGED lights
            /\ LogLight([NoCall EXCEPT !.op = "light_type.setter", !.light = l,
                                          !.given = ltype, !.err = R.err])

\* light.light_type
call_light_type ==
    \E l \in 1..Len(lights) :
        LET R == light_type(vtk_lights[lights[l]._light])
        IN  /\ UNCHANGED <<vtk_lights, lights>>
            /\ LogLight([NoCall EXCEPT !.op = "light_type", !.light = l,
                                          !.result = R.ret, !.err = R.err])

call_set_headlight ==
    \E l \in 1..Len(lights) :
        /\ vtk_lights' = [vtk_lights EXCEPT ![lights[l]._light] = set_headlight(@)]
        /\ UNCHANGED lights
        /\ LogLight([NoCall EXCEPT !.op = "set_headlight", !.light = l])

call_set_camera_light ==
    \E l \in 1..Len(lights) :
        /\ vtk_lights' = [vtk_lights EXCEPT ![lights[l]._light] = set_camera_light(@)]
        /\ UNCHANGED lights
        /\ LogLight([NoCall EXCEPT !.op = "set_camera_light", !.light = l])

call_set_scene_light ==
    \E l \in 1..Len(lights) :
        /\ vtk_lights' = [vtk_lights EXCEPT ![lights[l]._light] = set_scene_light(@)]
        /\ UNCHANGED lights
        /\ LogLight([NoCall EXCEPT !.op = "set_scene_light", !.light = l])

call_switch_on ==
    \E l \in 1..Len(lights) :
        /\ vtk_lights' = [vtk_lights EXCEPT ![lights[l]._light] = switch_on(@)]
        /\ UNCHANGED lights
        /\ LogLight([NoCall EXCEPT !.op = "switch_on", !.light = l])

call_switch_off ==
    \E l \in 1..Len(lights) :
        /\ vtk_lights' = [vtk_lights EXCEPT ![lights[l]._light] = switch_off(@)]
        /\ UNCHANGED lights
        /\ LogLight([NoCall EXCEPT !.op = "switch_off", !.light = l])

\* light.switch(), light.switch(True), light.switch(False)
call_switch ==
    \E l \in 1..Len(lights), state \in {NoneValue, BoolValue(TRUE), BoolValue(FALSE)} :
        /\ vtk_lights' = [vtk_lights EXCEPT ![lights[l]._light] = switch(@, state)]
        /\ UNCHANGED lights
        /\ LogLight([NoCall EXCEPT !.op = "switch", !.light = l, !.given = state])

\* light.is_on = state
call_is_on_setter ==
    \E l \in 1..Len(lights), state \in BOOLEAN :
        /\ vtk_lights' = [vtk_lights EXCEPT ![lights[l]._light] = is_on_setter(@, state)]
        /\ UNCHANGED lights
        /\ LogLight([NoCall EXCEPT !.op = "is_on.setter", !.light = l, !.flag = state])

\* light.is_on
call_is_on ==
    \E l \in 1..Len(lights) :
        /\ UNCHANGED <<vtk_lights, lights>>
        /\ LogLight([NoCall EXCEPT !.op = "is_on", !.light = l,
                                      !.flag = is_on(vtk_lights[lights[l]._light])])

\* light.shallow_copy(): Light(self._light)
call_shallow_copy ==
    \E l \in 1..Len(lights) :
        /\ Len(lights) < MaxLights
        /\ lights' = Append(lights, [_light |-> lights[l]._light])
        /\ UNCHANGED vtk_lights
        /\ LogLight([NoCall EXCEPT !.op = "shallow_copy", !.light = l])

\* light.deepcopy(): a new vtkLight, DeepCopy(self._light), Light(vtk_light)
call_deepcopy ==
    \E l \in 1..Len(lights), type_copied \in BOOLEAN :
        /\ Len(lights) < MaxLights
        /\ Len(vtk_lights) < MaxVtkLights
        /\ vtk_lights' = Append(vtk_lights,
                                 DeepCopy(vtkLight, vtk_lights[lights[l]._light],
                                          type_copied))
        /\ lights' = Append(lights, [_light |-> Len(vtk_lights) + 1])
        /\ LogLight([NoCall EXCEPT !.op = "deepcopy", !.light = l])

NextLight ==
    \/ call_vtkLight
    \/ call_SetLightType
    \/ call_Light
    \/ call_from_vtk
    \/ call_light_type_setter
    \/ call_light_type
    \/ call_set_headlight
    \/ call_set_camera_light
    \/ call_set_scene_light

\* every call on a light is recorded, with the error it raised
LightErrors == {"", "TypeError", "ValueError", "AttributeError"}
LightOps == {"Light", "from_vtk", "light_type.setter", "light_type", "set_headlight",
             "set_camera_light", "set_scene_light"}
InitLight ==
    /\ Init0
    /\ contents = {1}
    /\ given_names = Names
    /\ vector_names = {None}
    /\ activated_names = NameOrNone
    /\ light_inputs = [position |-> {<<>>}, color |-> {<<>>},
                       light_type |-> LightTypeInputs]
    /\ watch = LightOps \X LightErrors
SpecLight == InitLight /\ [][NextLight]_vars

\* the calls of Light are recorded; positions and colours are passed
InitConstruct ==
    /\ Init0
    /\ contents = {1}
    /\ given_names = Names
    /\ vector_names = {None}
    /\ activated_names = NameOrNone
    /\ light_inputs = [position |-> PositionInputs, color |-> ColorInputs,
                       light_type |-> {IntValue(CAMERA_LIGHT), EnumValue(HEADLIGHT)}
                                         \cup {StrValue(chars) : chars \in TypeStrings \ {<<>>}}]
    /\ watch = {"Light"} \X LightErrors
SpecConstruct == InitConstruct /\ [][NextLight]_vars

\* the switch and the copies of a Light
NextSwitch ==
    \/ call_Light
    \/ call_light_type_setter
    \/ call_switch_on
    \/ call_switch_off
    \/ call_switch
    \/ call_is_on_setter
    \/ call_is_on
    \/ call_shallow_copy
    \/ call_deepcopy

\* every call that returns is recorded
SwitchOps == {"Light", "light_type.setter", "switch_on", "switch_off", "switch",
              "is_on.setter", "is_on", "shallow_copy", "deepcopy"}
InitSwitch ==
    /\ Init0
    /\ contents = {1}
    /\ given_names = Names
    /\ vector_names = {None}
    /\ activated_names = NameOrNone
    /\ light_inputs = [position |-> PositionInputs, color |-> ColorInputs,
                       light_type |-> {EnumValue(HEADLIGHT), IntValue(SCENE_LIGHT)}]
    /\ watch = SwitchOps \X {""}
SpecSwitch == InitSwitch /\ [][NextSwitch]_vars

(* ------------------------------- claims -------------------------------- *)
\* the association and the name of the cached designation
ActiveField == _active_scalars_info[1]

ActiveName == _active_scalars_info[2]

\* name is in none of the three collections
Absent(name) ==
    /\ ~contains(point_arrays, name)
    /\ ~contains(cell_arrays, name)
    /\ ~contains(field_arrays, name)

\* C1: whenever the cached designation has a name, an array of that name is in
\* the collection the designation's association names.
C1_ActiveArrayExists ==
    ActiveName # None => contains(Collection(Self, ActiveField), ActiveName)

\* C2: set_active_scalars with a name that is in no collection raises, and the
\* cached designation after the call is the one held before it.
C2_FailedSetKeepsDesignation ==
    [][(/\ last'.op = "set_active_scalars"
        /\ last'.name # None
        /\ Absent(last'.name))
       => (/\ last'.err # ""
           /\ _active_scalars_info' = _active_scalars_info)]_vars

\* C3: when rename_array renames the array the cached designation names, the
\* designation afterwards is (the same association, new_name) and that
\* collection's native selection is new_name.
C3_RenameTracksActive ==
    [][(/\ last'.op = "rename_array"
        /\ _active_scalars_info =
               <<get_array(Self, last'.name, parse_field_choice(last'.pref)), last'.name>>)
       => (/\ _active_scalars_info' = <<ActiveField, last'.arg>>
           /\ ActiveField = POINT_DATA_FIELD => point_scalars' = last'.arg
           /\ ActiveField = CELL_DATA_FIELD => cell_scalars' = last'.arg)]_vars

\* the collection rename_array resolves old_name to, in the state before the call
RenamedField == get_array(Self, last'.name, parse_field_choice(last'.pref))

\* the collections other than field are the same after the step as before it
OthersUnchanged(field) ==
    /\ field # POINT_DATA_FIELD => point_arrays' = point_arrays
    /\ field # CELL_DATA_FIELD => cell_arrays' = cell_arrays
    /\ field # FIELD_DATA_FIELD => field_arrays' = field_arrays

\* the array old_name of the collection before the step is the array new_name
\* of the collection after it
Moved(before, after, old_name, new_name) ==
    /\ \E i \in 1..Len(before) : before[i].name = old_name
    /\ \E j \in 1..Len(after) :
           /\ after[j].name = new_name
           /\ \A i \in 1..Len(before) :
                  before[i].name = old_name => after[j].data = before[i].data

\* C4 as stated: after a rename_array that returns, the array is under new_name
\* in the collection it was in, with the contents it had, and no collection
\* holds old_name any more.
C4_RenameRemovesOldNameEverywhere ==
    [][last'.op = "rename_array"
       => (/\ Moved(Collection(Self, RenamedField), Collection(Self', RenamedField),
                    last'.name, last'.arg)
           /\ ~contains(point_arrays', last'.name)
           /\ ~contains(cell_arrays', last'.name)
           /\ ~contains(field_arrays', last'.name))]_vars

\* C4 as amended: after a rename_array that returns, the array is under new_name
\* in the collection it was in, with the contents it had; when new_name differs
\* from old_name that collection holds old_name no more; the two other
\* collections, an array named old_name in them included, are as they were.
C4_RenameMovesWithinCollection ==
    [][last'.op = "rename_array"
       => (/\ RenamedField \in {POINT_DATA_FIELD, CELL_DATA_FIELD, FIELD_DATA_FIELD}
           /\ Moved(Collection(Self, RenamedField), Collection(Self', RenamedField),
                    last'.name, last'.arg)
           /\ last'.name # last'.arg
                  => ~contains(Collection(Self', RenamedField), last'.name)
           /\ OthersUnchanged(RenamedField))]_vars

\* a rename of the point array old_name has returned and the cell array of the
\* same name is still there
C4_Witness ==
    /\ last.op = "rename_array"
    /\ last.pref = "point"
    /\ last.name # last.arg
    /\ contains(point_arrays, last.arg)
    /\ ~contains(point_arrays, last.name)
    /\ contains(cell_arrays, last.name)
    /\ get(point_arrays, last.arg) # get(cell_arrays, last.name)

\* no array of the collection has a name outside excluded_names
NoValidArray(coll) == \A i \in 1..Len(coll) : coll[i].name \in excluded_names

\* what set_active_scalars(None) does: both native selections are cleared and
\* the collections, the cached designation and the last-known-good name stay
Deactivated ==
    /\ point_scalars' = None
    /\ cell_scalars' = None
    /\ UNCHANGED <<point_arrays, cell_arrays, field_arrays, _active_scalars_info,
                   _last_active_scalars_name>>

C6_NoArraysReadsUnset ==
    (last.op = "active_scalars_info" /\ n_arrays(Self) = 0) => last.info[2] = None

\* C7: when the cached name is an excluded name and a last-known-good name is
\* recorded, the read of active_scalars_info returns the last-known-good name.
C7_ExcludedNameSubstituted ==
    [][(/\ last'.op = "active_scalars_info"
        /\ ActiveName \in excluded_names
        /\ _last_active_scalars_name # None)
       => last'.info[2] = _last_active_scalars_name]_vars

\* i is the place of the first array of the collection with a non-excluded name
FirstValid(coll, i) ==
    /\ i \in 1..Len(coll)
    /\ coll[i].name \notin excluded_names
    /\ \A j \in 1..(i - 1) : coll[j].name \in excluded_names

\* C8: a read of active_scalars_info with the cached name unset and at least one
\* array held returns and caches (point, first non-excluded point name) and
\* selects it natively; with no such point array, the same for the cell
\* collection; with neither, the name stays unset and nothing is selected.
C8_LazyFallback ==
    [][(/\ last'.op = "active_scalars_info"
        /\ ActiveName = None
        /\ n_arrays(Self) >= 1)
       => (/\ last'.info = _active_scalars_info'
           /\ \/ \E i \in 1..Len(point_arrays) :
                     /\ FirstValid(point_arrays, i)
                     /\ last'.info = <<POINT_DATA_FIELD, point_arrays[i].name>>
                     /\ point_scalars' = point_arrays[i].name
                     /\ cell_scalars' = cell_scalars
              \/ /\ NoValidArray(point_arrays)
                 /\ \E i \in 1..Len(cell_arrays) :
                        /\ FirstValid(cell_arrays, i)
                        /\ last'.info = <<CELL_DATA_FIELD, cell_arrays[i].name>>
                        /\ cell_scalars' = cell_arrays[i].name
                        /\ point_scalars' = point_scalars
              \/ /\ NoValidArray(point_arrays)
                 /\ NoValidArray(cell_arrays)
                 /\ last'.info[2] = None
                 /\ UNCHANGED <<point_scalars, cell_scalars>>)]_vars

\* the read has chosen the cell array "a", stored after the excluded "Normals",
\* on a dataset that had no active scalars before
C8_Witness ==
    /\ last.op = "active_scalars_info"
    /\ last.info = <<CELL_DATA_FIELD, "a">>
    /\ _last_active_scalars_name = None
    /\ Len(cell_arrays) = 2
    /\ cell_arrays[1].name = "Normals"
    /\ cell_scalars = "a"

\* C9: set_active_scalars(name, preference='point') with name in the cell
\* collection only returns, and leaves the cached designation (cell, name) and
\* the cell collection's native selection name.
C9_PointPreferenceFallsBackToCell ==
    [][(/\ last'.op = "set_active_scalars"
        /\ last'.pref = "point"
        /\ contains(cell_arrays, last'.name)
        /\ ~contains(point_arrays, last'.name)
        /\ ~contains(field_arrays, last'.name))
       => (/\ last'.err = ""
           /\ _active_scalars_info' = <<CELL_DATA_FIELD, last'.name>>
           /\ cell_scalars' = last'.name)]_vars

\* such a call has returned, on a dataset whose point collection holds another
\* array
C9_Witness ==
    /\ last.op = "set_active_scalars"
    /\ last.pref = "point"
    /\ last.err = ""
    /\ contains(cell_arrays, last.name)
    /\ ~contains(point_arrays, last.name)
    /\ ~contains(field_arrays, last.name)
    /\ Len(point_arrays) > 0
    /\ _active_scalars_info = <<CELL_DATA_FIELD, last.name>>

\* the field names, then the point names, then the cell names
AllNames == keys(field_arrays) \o keys(point_arrays) \o keys(cell_arrays)

\* seq without its i-th element
Without(seq, i) == SubSeq(seq, 1, i - 1) \o SubSeq(seq, i + 1, Len(seq))

\* C10: array_names returns the field names, then the point names, then the
\* cell names, with one occurrence of the active scalars name, if it is
\* among them, moved to the front; the list is as long as the three collections
\* hold arrays.
C10_ArrayNames ==
    last.op = "array_names"
    => (/\ Len(last.names) = Len(field_arrays) + Len(point_arrays) + Len(cell_arrays)
        /\ IF \E i \in 1..Len(AllNames) : AllNames[i] = ActiveName
           THEN /\ last.names[1] = ActiveName
                /\ \E i \in 1..Len(AllNames) :
                       /\ AllNames[i] = ActiveName
                       /\ Tail(last.names) = Without(AllNames, i)
           ELSE last.names = AllNames)

\* array_names has moved the active scalars name in front of the field name
\* that is stored before it
C10_Witness ==
    /\ last.op = "array_names"
    /\ Len(field_arrays) = 1
    /\ Len(last.names) >= 2
    /\ last.names[1] # field_arrays[1].name
    /\ last.names[1] = ActiveName
    /\ last.names[2] = field_arrays[1].name

\* the collection set_active_scalars resolves name to, in the state before the call
ResolvedField == get_array(Self, last'.name, parse_field_choice(last'.pref))

\* C11: a set_active_scalars(name, preference) that returns leaves the cached
\* designation (resolved association, name), the last-known-good name the name a
\* read returned right before the call, the resolved collection's native
\* selection name, and the other collection's native selection as it was.
C11_SuccessfulSetFrame ==
    [][(/\ last'.op = "set_active_scalars"
        /\ last'.name # None
        /\ last'.err = "")
       => (/\ _active_scalars_info' = <<ResolvedField, last'.name>>
           /\ _last_active_scalars_name' = active_scalars_info(Self).ret[2]
           /\ ResolvedField = POINT_DATA_FIELD
                  => (point_scalars' = last'.name /\ cell_scalars' = cell_scalars)
           /\ ResolvedField = CELL_DATA_FIELD
                  => (cell_scalars' = last'.name /\ point_scalars' = point_scalars))]_vars

\* the association of a designation is point or cell
Activatable(info) == info[1] \in {POINT_DATA_FIELD, CELL_DATA_FIELD}

\* C12: in every reachable state the association of the active-scalars and of
\* the active-vectors designation is point or cell, and set_active_scalars and
\* set_active_vectors called there with a name that resolves to a field array
\* raise and leave the association point or cell.
C12_FieldNeverActive ==
    /\ Activatable(_active_scalars_info)
    /\ _active_vectors_info # Unset => Activatable(_active_vectors_info)
    /\ \A name \in Names, preference \in Preferences :
           get_array(Self, name, parse_field_choice(preference)) = FIELD_DATA_FIELD
           => LET scalars == set_active_scalars(Self, name, parse_field_choice(preference))
                  vectors == set_active_vectors(Self, name, parse_field_choice(preference))
              IN  /\ scalars.err = "RuntimeError"
                  /\ Activatable(scalars.S.info)
                  /\ vectors.err = "RuntimeError"
                  /\ vectors.S.vinfo = _active_vectors_info

\* set_active_vectors has raised for the name of a field array, on a dataset
\* whose active vectors are a point array
C12_Witness ==
    /\ last.op = "set_active_vectors"
    /\ last.err = "RuntimeError"
    /\ contains(field_arrays, last.name)
    /\ ~contains(point_arrays, last.name)
    /\ ~contains(cell_arrays, last.name)
    /\ _active_vectors_info # Unset
    /\ _active_vectors_info[1] = POINT_DATA_FIELD
    /\ _active_vectors_info[2] \notin {None, last.name}

\* C13: _remove_array(field, name) removes the named array from the collection
\* field selects and from no other, raises NotImplementedError for a field that
\* is not point, cell or field, and leaves the cached active-scalars
\* designation, the last-known-good name and the active-vectors designation as
\* they were.
C13_RemoveArrayFrame ==
    [][last'.op = "_remove_array"
       => LET f == parse_field_choice(last'.pref)
          IN  /\ UNCHANGED <<_active_scalars_info, _last_active_scalars_name,
                             _active_vectors_info>>
              /\ IF f \in {POINT_DATA_FIELD, CELL_DATA_FIELD, FIELD_DATA_FIELD}
                 THEN /\ last'.err = ""
                      /\ Collection(Self', f)
                             = SelectSeq(Collection(Self, f), LAMBDA a : a.name # last'.name)
                      /\ OthersUnchanged(f)
                 ELSE /\ last'.err = "NotImplementedError"
                      /\ UNCHANGED <<point_arrays, cell_arrays, field_arrays>>]_vars

\* _remove_array has removed the point array that both the active-scalars and
\* the active-vectors designation name, and a cell array of the same name stays
C13_Witness ==
    /\ last.op = "_remove_array"
    /\ last.err = ""
    /\ last.pref = "point"
    /\ _active_scalars_info = <<POINT_DATA_FIELD, last.name>>
    /\ _active_vectors_info = <<POINT_DATA_FIELD, last.name>>
    /\ ~contains(point_arrays, last.name)
    /\ contains(cell_arrays, last.name)

\* C14: in every reachable state, rename_array called with an old_name that is
\* in none of the three collections raises and leaves the collections, the
\* active-scalars designation and the last-known-good name as they are.
C14_RenameAbsentRaises ==
    \A old_name \in Names, new_name \in Names, preference \in Preferences :
        Absent(old_name)
        => LET R == rename_array(Self, old_name, new_name, parse_field_choice(preference))
           IN  /\ R.err = "RuntimeError"
               /\ R.S.point = point_arrays
               /\ R.S.cell = cell_arrays
               /\ R.S.field = field_arrays
               /\ R.S.info = _active_scalars_info
               /\ R.S.last_name = _last_active_scalars_name

\* rename_array has raised for a name no collection holds, on a dataset that
\* holds the new_name and whose cached active-scalars name is unset, so that a
\* read would have changed the designation
C14_Witness ==
    /\ last.op = "rename_array"
    /\ last.err = "RuntimeError"
    /\ Absent(last.name)
    /\ contains(cell_arrays, last.arg)
    /\ ActiveName = None
    /\ active_scalars_info(Self).ret[2] # None

\* C15: set_active_vectors(None) clears the native active-vectors selection of
\* the point and of the cell collection, and right after it the name
\* active_vectors_info returns is None and active_vectors returns None.
C15_DeactivateVectors ==
    [][(last'.op = "set_active_vectors" /\ last'.name = None)
       => (/\ point_vectors' = None
           /\ cell_vectors' = None
           /\ active_vectors_info(Self').err = ""
           /\ active_vectors_info(Self').ret[2] = None
           /\ active_vectors(Self').err = ""
           /\ active_vectors(Self').ret = <<>>)]_vars

\* C16: after _add_point_array(scalars, name, set_active=True) the cached
\* designation is (point, name), and after _add_cell_array(scalars, name,
\* set_active=True) it is (cell, name).
C16_AddSetActive ==
    [][(last'.op \in {"_add_point_array", "_add_cell_array"} /\ last'.flag)
       => _active_scalars_info'
              = <<IF last'.op = "_add_point_array" THEN POINT_DATA_FIELD
                  ELSE CELL_DATA_FIELD,
                  last'.name>>]_vars

\* C17: as long as the caller passes no excluded name to set_active_scalars and
\* adds none with set_active=True, the cached active-scalars name is not an
\* excluded name.
C17_ExcludedNeverAutoSelected == ActiveName \notin excluded_names

\* the vtkLight the Light object l wraps, after the step and now
WrappedAfter(l) == vtk_lights'[lights'[l]._light]

Wrapped(l) == vtk_lights[lights[l]._light]

\* the type a recorded call sets: the code passed to the light_type setter, or
\* the type the set_ method names; 0 for any other call
TypeSet(call) ==
    IF call.op = "light_type.setter" /\ isinstance_int(call.given)
                                     /\ call.given[2] \in LightType
    THEN call.given[2]
    ELSE IF call.op = "set_headlight" THEN HEADLIGHT
    ELSE IF call.op = "set_camera_light" THEN CAMERA_LIGHT
    ELSE IF call.op = "set_scene_light" THEN SCENE_LIGHT
    ELSE 0

\* C18: assigning the int code or the LightType member of a type to light_type,
\* or calling set_headlight / set_camera_light / set_scene_light, returns, and
\* afterwards light_type reads that type and of is_headlight, is_camera_light
\* and is_scene_light exactly the matching one is true.
C18_LightTypeRoundTrip ==
    [][TypeSet(last') # 0
       => (/\ last'.err = ""
           /\ light_type(WrappedAfter(last'.light)).err = ""
           /\ light_type(WrappedAfter(last'.light)).ret[2] = TypeSet(last')
           /\ is_headlight(WrappedAfter(last'.light)) = (TypeSet(last') = HEADLIGHT)
           /\ is_camera_light(WrappedAfter(last'.light)) = (TypeSet(last') = CAMERA_LIGHT)
           /\ is_scene_light(WrappedAfter(last'.light)) = (TypeSet(last') = SCENE_LIGHT))]_vars

\* the int code of the headlight has been assigned to the light_type of the
\* second of two lights, which was a camera light or a scene light before
C18_Witness ==
    /\ last.op = "light_type.setter"
    /\ last.given = IntValue(HEADLIGHT)
    /\ last.err = ""
    /\ last.light = 2
    /\ is_headlight(Wrapped(2))
    /\ ~is_headlight(Wrapped(1))

\* strings that name no light type
InvalidTypeStrings == {<<"i", "n", "v", "a", "l", "i", "d">>, <<>>}

\* C19: Light(light_type=x) raises TypeError for an x that is neither str nor
\* int and ValueError for a str that names no light type; assigning a non-int
\* to the light_type property raises TypeError and leaves the light as it was.
C19_InvalidLightType ==
    [][/\ (/\ last'.op = "Light"
           /\ last'.arg = "NoneType"
           /\ ~isinstance_str(last'.given)
           /\ ~isinstance_int(last'.given))
          => (last'.err = "TypeError" /\ UNCHANGED <<vtk_lights, lights>>)
       /\ (/\ last'.op = "Light"
           /\ last'.arg = "NoneType"
           /\ isinstance_str(last'.given)
           /\ last'.given[3] \in InvalidTypeStrings)
          => (last'.err = "ValueError" /\ UNCHANGED <<vtk_lights, lights>>)
       /\ (last'.op = "light_type.setter" /\ ~isinstance_int(last'.given))
          => (last'.err = "TypeError" /\ UNCHANGED <<vtk_lights, lights>>)]_vars

\* the assignment of the string 'scene light' to the light_type of a headlight
\* has raised TypeError
C19_Witness ==
    /\ last.op = "light_type.setter"
    /\ last.given = StrValue(SceneLightDefault)
    /\ last.err = "TypeError"
    /\ is_headlight(Wrapped(last.light))

\* C20: Light.from_vtk(vtk_light) returns a new Light that wraps the vtkLight
\* given, so that its properties read the vtkLight's values; Light.from_vtk(x)
\* and Light(x) with an x that is no vtkLight raise TypeError.
C20_FromVtk ==
    [][/\ (last'.op = "from_vtk" /\ isinstance_vtkLight(last'.given))
          => (/\ last'.err = ""
              /\ lights' = Append(lights, [_light |-> last'.given[2]])
              /\ vtk_lights' = vtk_lights)
       /\ (last'.op = "from_vtk" /\ ~isinstance_vtkLight(last'.given))
          => last'.err = "TypeError"
       /\ (last'.op = "Light" /\ last'.arg \notin {"NoneType", "vtkLight"})
          => last'.err = "TypeError"]_vars

\* C30: every assignment to light_type that returns leaves a type that
\* light_type reads, without an error, as one of the three LightType members.
C30_StoredTypeIsMember ==
    [][(last'.op = "light_type.setter" /\ last'.err = "")
       => (/\ light_type(WrappedAfter(last'.light)).err = ""
           /\ light_type(WrappedAfter(last'.light)).ret[2] \in LightType)]_vars

\* C23: Light(existing_light, position=, color=, light_type=) with a vtkLight
\* as existing_light returns a Light that wraps that vtkLight, raises nothing
\* whatever the keyword arguments are, and changes no vtkLight.
C23_KeywordsIgnoredWhenWrapping ==
    [][(last'.op = "Light" /\ last'.arg = "vtkLight")
       => (/\ last'.err = ""
           /\ vtk_lights' = vtk_lights
           /\ last'.light = Len(lights) + 1
           /\ Len(lights') = Len(lights) + 1
           /\ SubSeq(lights', 1, Len(lights)) = lights
           /\ lights'[last'.light]._light \in 1..Len(vtk_lights))]_vars

\* a headlight at the default position has been wrapped by a call of Light that
\* passed a position, a colour and a string that names no light type
C23_Witness ==
    /\ last.op = "Light"
    /\ last.arg = "vtkLight"
    /\ last.err = ""
    /\ last.position = <<1, 1, 1>>
    /\ last.color = <<1, 0, 0>>
    /\ last.given = StrValue(<<"i", "n", "v", "a", "l", "i", "d">>)
    /\ is_headlight(Wrapped(last.light))
    /\ Wrapped(last.light).Position = vtkLight.Position
    /\ Wrapped(last.light).DiffuseColor = vtkLight.DiffuseColor

\* the light type a value passed as light_type names; 0 when it names none
TypeNamed(t) ==
    IF isinstance_int(t) THEN (IF t[2] \in LightType THEN t[2] ELSE 0)
    ELSE IF ~isinstance_str(t) THEN 0
    ELSE IF t[3] = <<"s", "c", "e", "n", "e", " ", "l", "i", "g", "h", "t">>
    THEN SCENE_LIGHT
    ELSE IF t[3] = <<"H", "e", "a", "d", "l", "i", "g", "h", "t">> THEN HEADLIGHT
    ELSE IF t[3] = <<"C", "A", "M", "E", "R", "A", " ", "L", "I", "G", "H", "T">>
    THEN CAMERA_LIGHT
    ELSE 0

\* C24: Light(position=p, color=c, light_type=t) with t the int code, the
\* LightType member or a spelling of a light type returns a new Light on a new
\* vtkLight whose position is p, whose ambient, diffuse and specular colours are
\* c and whose light_type reads the type t names; 'scene light' is the default.
C24_ConstructedAsGiven ==
    [][(last'.op = "Light" /\ last'.arg = "NoneType" /\ TypeNamed(last'.given) # 0)
       => (/\ last'.err = ""
           /\ last'.light = Len(lights) + 1
           /\ lights' = Append(lights, [_light |-> Len(vtk_lights) + 1])
           /\ SubSeq(vtk_lights', 1, Len(vtk_lights)) = vtk_lights
           /\ last'.position # <<>>
                  => WrappedAfter(last'.light).Position = last'.position
           /\ last'.color # <<>>
                  => (/\ WrappedAfter(last'.light).AmbientColor = last'.color
                      /\ WrappedAfter(last'.light).DiffuseColor = last'.color
                      /\ WrappedAfter(last'.light).SpecularColor = last'.color)
           /\ light_type(WrappedAfter(last'.light))
                  = [ret |-> EnumValue(TypeNamed(last'.given)), err |-> ""])]_vars

\* a second Light has been constructed from a position, a colour and the
\* spelling 'CAMERA LIGHT'
C24_Witness ==
    /\ last.op = "Light"
    /\ last.arg = "NoneType"
    /\ last.err = ""
    /\ last.light = 2
    /\ last.position = <<1, 1, 1>>
    /\ last.color = <<1, 0, 0>>
    /\ last.given = StrValue(<<"C", "A", "M", "E", "R", "A", " ", "L", "I", "G", "H", "T">>)
    /\ is_camera_light(Wrapped(2))

\* C21: switch_on() leaves the light on and switch_off() leaves it off;
\* is_on = b and switch(b) leave is_on equal to b; switch() inverts is_on, so
\* that a second switch() gives back the state before the first.
C21_SwitchOperations ==
    [][/\ last'.op = "switch_on" => is_on(WrappedAfter(last'.light))
       /\ last'.op = "switch_off" => ~is_on(WrappedAfter(last'.light))
       /\ last'.op = "is_on.setter"
              => is_on(WrappedAfter(last'.light)) = last'.flag
       /\ (last'.op = "switch" /\ last'.given # NoneValue)
              => is_on(WrappedAfter(last'.light)) = (last'.given = BoolValue(TRUE))
       /\ (last'.op = "switch" /\ last'.given = NoneValue)
              => (/\ is_on(WrappedAfter(last'.light)) = ~is_on(Wrapped(last'.light))
                  /\ is_on(switch(WrappedAfter(last'.light), NoneValue))
                         = is_on(Wrapped(last'.light)))]_vars

\* switch() has switched off the second of two lights, and the first, on a
\* vtkLight of its own, is on
C21_Witness ==
    /\ last.op = "switch"
    /\ last.given = NoneValue
    /\ last.light = 2
    /\ lights[1]._light # lights[2]._light
    /\ is_on(Wrapped(1))
    /\ ~is_on(Wrapped(2))

\* the calls that change a property of the light they are made on
PropertyChanges == {"light_type.setter", "switch_on", "switch_off", "switch",
                    "is_on.setter"}

\* C22: shallow_copy() returns a Light on the vtkLight of the original, and a
\* Light keeps its vtkLight, so that a property changed through one is read
\* through the other; deepcopy() returns a Light on a new vtkLight whose
\* properties equal the original's; a property changed through a Light changes
\* the vtkLight of that Light and no other.
C22_Copies ==
    [][/\ SubSeq(lights', 1, Len(lights)) = lights
       /\ last'.op = "shallow_copy"
              => (/\ lights' = Append(lights, [_light |-> lights[last'.light]._light])
                  /\ vtk_lights' = vtk_lights)
       /\ last'.op = "deepcopy"
              => (/\ lights' = Append(lights, [_light |-> Len(vtk_lights) + 1])
                  /\ SubSeq(vtk_lights', 1, Len(vtk_lights)) = vtk_lights
                  /\ vtk_lights'[Len(vtk_lights) + 1] = Wrapped(last'.light))
       /\ last'.op \in PropertyChanges
              => (/\ Len(vtk_lights') = Len(vtk_lights)
                  /\ \A i \in 1..Len(vtk_lights) :
                         i # lights[last'.light]._light
                         => vtk_lights'[i] = vtk_lights[i])]_vars

\* the native active-scalar selection of the collection of association field
NativeScalars(field) ==
    IF field = POINT_DATA_FIELD THEN point_scalars
    ELSE IF field = CELL_DATA_FIELD THEN cell_scalars
    ELSE None

\* C25: whenever the cached designation has a name, the native active-scalar
\* selection of the collection its association names is that name.
C25_CacheAgreesWithNative ==
    ActiveName # None => NativeScalars(ActiveField) = ActiveName

\* C26: a call of set_active_scalars that raises leaves the cached
\* designation, the last-known-good name and both native active-scalar
\* selections as they were before the call.
C26_FailedSetLeavesRegistry ==
    [][(last'.op = "set_active_scalars" /\ last'.err # "")
       => UNCHANGED <<_active_scalars_info, _last_active_scalars_name,
                      point_scalars, cell_scalars>>]_vars

\* C27: when the point and the cell collection both hold old_name, the cached
\* designation names it in one of the two, and rename_array resolves old_name
\* to the other, the cached designation after the call is the one before it.
C27_RenameOtherCollectionKeepsActive ==
    [][(/\ last'.op = "rename_array"
        /\ contains(point_arrays, last'.name)
        /\ contains(cell_arrays, last'.name)
        /\ ActiveName = last'.name
        /\ ActiveField \in {POINT_DATA_FIELD, CELL_DATA_FIELD}
        /\ RenamedField \in {POINT_DATA_FIELD, CELL_DATA_FIELD}
        /\ RenamedField # ActiveField)
       => _active_scalars_info' = _active_scalars_info]_vars

\* C28: in every reachable state, a read of active_scalars_info made right
\* after a read returns the pair the first returned and changes nothing of the
\* dataset: neither the cached designation, nor the last-known-good name, nor
\* a native selection.
C28_ReadIdempotent ==
    LET first == active_scalars_info(Self)
        second == active_scalars_info(first.S)
    IN  /\ second.ret = first.ret
        /\ second.S = first.S

\* active_scalars_info has been read on a dataset that holds arrays and whose
\* cached name is an excluded one with no last-known-good name to replace it,
\* so that the next read searches the collections again
C28_Witness ==
    /\ last.op = "active_scalars_info"
    /\ n_arrays(Self) > 0
    /\ ActiveName \in excluded_names
    /\ _last_active_scalars_name = None

\* C29: in every reachable state where active_vectors_info has not been read or
\* set yet, the read returns without an error: (point, 'Normals') or
\* (cell, 'Normals'), of a collection that holds 'Normals', when the point or
\* the cell collection holds that name, and (point, None) when no collection
\* holds it.
C29_FirstVectorsReadReturns ==
    _active_vectors_info = Unset
    => LET R == active_vectors_info(Self)
       IN  /\ R.err = ""
           /\ (contains(point_arrays, "Normals") \/ contains(cell_arrays, "Normals"))
                  => (/\ R.ret[1] \in {POINT_DATA_FIELD, CELL_DATA_FIELD}
                      /\ R.ret[2] = "Normals"
                      /\ contains(Collection(Self, R.ret[1]), "Normals"))
           /\ Absent("Normals") => R.ret = <<POINT_DATA_FIELD, None>>
====
